---- MODULE Spec2Model ----
(***************************************************************************)
(* Frog Species Registry (src/frog_registry.py): a form application that   *)
(* stores frog records in one SQLite table, the species name encrypted     *)
(* with a Fernet key kept in the file key.key.                             *)
(*                                                                         *)
(* Text is a sequence of one-character strings.  The key file and the      *)
(* database file outlive the process; the cipher, the message box and the  *)
(* registry window live only while the application runs.                   *)
(***************************************************************************)
EXTENDS Integers, Sequences, FiniteSets, TLC

VARIABLES
    pc,               \* "off", "running" or "crashed" (constructor raised)
    keyFile,          \* content of key.key: NoFile or a key
    cipher,           \* self.cipher: the Fernet object's key, NoCipher when no process
    tableExists,      \* frog_registry.db holds the table frogs
    rows,             \* the rows of frogs, in rowid order
    sqlite_sequence,  \* AUTOINCREMENT's record of the largest rowid ever used
    tree,             \* the rows of the Treeview of the last registry window
    msg,              \* the last message box shown by save_record
    keyLog            \* keys returned by load_or_generate_key since key.key was last changed from outside

vars == <<pc, keyFile, cipher, tableExists, rows, sqlite_sequence, tree, msg, keyLog>>

----------------------------------------------------------------------------
(* Bounds and input sets *)

MaxRows == 2

\* An unpaired surrogate: a character that str.encode() refuses.
Surrogate == "\\ud800"

KeyIds == {"K1", "K2"}

SpeciesInputs ==
    { <<>>, <<" ">>, <<"a">>, <<" ", "a">>, <<"a", " ">>,
      <<" ", "a", " ", "b", " ">>, <<"a", Surrogate>> }

FieldInputs == { <<>>, <<" ">>, <<"g">>, <<" ", "g", " ">> }

ConservationStatuses ==
    { "Least Concern", "Near Threatened", "Vulnerable", "Endangered",
      "Critically Endangered", "Extinct" }

\* What status_combobox.get() may return.  The box is read-only and preset,
\* so "" does not come from the user; it is here for the test of line 75.
StatusInputs == { "", "Least Concern", "Extinct" }

----------------------------------------------------------------------------
(* Values *)

\* A key is its identity and whether all of its bytes are there.
NoFile == [id |-> "none", whole |-> FALSE]
NoCipher == [id |-> "none", whole |-> FALSE]

GeneratedKey(k) == [id |-> k, whole |-> TRUE]

TruncatedKey(key) == [id |-> key.id, whole |-> FALSE]

MsgNone == "none"
MsgRequired == "All fields are required!"
MsgEncryptFailed == "Encryption failed"
MsgSuccess == "Frog species record saved successfully!"

DecryptionError ==
    << "D", "e", "c", "r", "y", "p", "t", "i", "o", "n", " ",
       "E", "r", "r", "o", "r" >>

----------------------------------------------------------------------------
(* str.strip, str.encode, bytes.decode *)

Min(S) == CHOOSE x \in S : \A y \in S : x <= y
Max(S) == CHOOSE x \in S : \A y \in S : x >= y

IsSpace(c) == c = " "

StripLeftOnly(s) ==
    LET keep == { i \in 1..Len(s) : ~IsSpace(s[i]) }
    IN  IF keep = {} THEN <<>> ELSE SubSeq(s, Min(keep), Len(s))

Strip(s) ==
    LET keep == { i \in 1..Len(s) : ~IsSpace(s[i]) }
    IN  IF keep = {} THEN <<>> ELSE SubSeq(s, Min(keep), Max(keep))

CodePoint(c) ==
    CASE c = " " -> 32
      [] c = "a" -> 97
      [] c = "b" -> 98
      [] c = "g" -> 103
      [] c = Surrogate -> 55296

IsSurrogateCode(n) == n >= 55296 /\ n <= 57343

CharOf(n) == CHOOSE c \in {" ", "a", "b", "g"} : CodePoint(c) = n

Utf8Encode(s) ==
    IF \E i \in 1..Len(s) : IsSurrogateCode(CodePoint(s[i]))
    THEN [ok |-> FALSE, bytes |-> <<>>]
    ELSE [ok |-> TRUE, bytes |-> [i \in 1..Len(s) |-> CodePoint(s[i])]]

Utf8Decode(b) == [i \in 1..Len(b) |-> CharOf(b[i])]

----------------------------------------------------------------------------
(* cryptography.fernet.Fernet, as the program uses it.  The constructor    *)
(* raises ValueError unless the key decodes to the full 32 bytes; a token  *)
(* names the key that signed it and carries the encrypted bytes, and       *)
(* decrypt raises InvalidToken under any other key.                        *)

FernetKeyAnyLength(key) == TRUE

FernetKeyOk(key) == key.whole

FernetEncrypt(c, bytes) == [key |-> c.id, data |-> bytes]

FernetDecryptAnyKey(c, token) == [ok |-> TRUE, bytes |-> token.data]

FernetDecrypt(c, token) ==
    IF token.key = c.id
    THEN [ok |-> TRUE, bytes |-> token.data]
    ELSE [ok |-> FALSE, bytes |-> <<>>]

----------------------------------------------------------------------------
(* load_or_generate_key: fresh is what Fernet.generate_key() returns *)

LoadAlwaysGenerate(file, fresh) ==
    [ok |-> TRUE, cipher |-> GeneratedKey(fresh), file |-> GeneratedKey(fresh)]

LoadOrGenerateKey(file, fresh) ==
    LET key == IF file # NoFile THEN file ELSE GeneratedKey(fresh)
        written == IF file # NoFile THEN file ELSE key
    IN  IF FernetKeyOk(key)
        THEN [ok |-> TRUE, cipher |-> key, file |-> written]
        ELSE [ok |-> FALSE, cipher |-> NoCipher, file |-> written]

----------------------------------------------------------------------------
(* save_record *)

MissingSpeciesOnly(species_name, genus, habitat, conservation_status) ==
    species_name = <<>>

RequiredMissing(species_name, genus, habitat, conservation_status) ==
    \/ species_name = <<>>
    \/ genus = <<>>
    \/ habitat = <<>>
    \/ conservation_status = ""

EncryptSpecies(c, species_name) ==
    LET e == Utf8Encode(species_name)
    IN  IF e.ok
        THEN [ok |-> TRUE, token |-> FernetEncrypt(c, e.bytes)]
        ELSE [ok |-> FALSE, token |-> FernetEncrypt(c, <<>>)]

NextRowIdNoIncrement(seq, rs) == Max({seq, 1} \cup { rs[i].id : i \in 1..Len(rs) })

NextRowId(seq, rs) == Max({seq} \cup { rs[i].id : i \in 1..Len(rs) }) + 1

InsertReplacingLast(rs, row) ==
    IF rs = <<>> THEN <<row>> ELSE [rs EXCEPT ![Len(rs)] = row]

InsertRow(rs, row) == Append(rs, row)

NewRow(id, token, genus, habitat, conservation_status) ==
    [ id |-> id, species_name |-> token, genus |-> genus, habitat |-> habitat,
      conservation_status |-> conservation_status ]

EncryptionFailedStoresAnyway(c, rs, seq, species_name, genus, habitat, conservation_status) ==
    LET id == NextRowId(seq, rs)
    IN  [ rows |-> InsertRow(rs, NewRow(id, FernetEncrypt(c, <<>>), genus, habitat,
                                        conservation_status)),
          seq |-> id, msg |-> MsgEncryptFailed ]

EncryptionFailed(c, rs, seq, species_name, genus, habitat, conservation_status) ==
    [rows |-> rs, seq |-> seq, msg |-> MsgEncryptFailed]

SaveOutcome(c, rs, seq, species_entry, genus_entry, habitat_entry, status_combobox) ==
    LET species_name == Strip(species_entry)
        genus == Strip(genus_entry)
        habitat == Strip(habitat_entry)
        conservation_status == status_combobox
        enc == EncryptSpecies(c, species_name)
        id == NextRowId(seq, rs)
    IN  IF RequiredMissing(species_name, genus, habitat, conservation_status)
        THEN [rows |-> rs, seq |-> seq, msg |-> MsgRequired]
        ELSE IF ~enc.ok
        THEN EncryptionFailed(c, rs, seq, species_name, genus, habitat,
                              conservation_status)
        ELSE [ rows |-> InsertRow(rs, NewRow(id, enc.token, genus, habitat,
                                             conservation_status)),
               seq |-> id, msg |-> MsgSuccess ]

----------------------------------------------------------------------------
(* view_registry *)

DisplayRow(c, row) ==
    LET d == FernetDecrypt(c, row.species_name)
    IN  [ id |-> row.id,
          species |-> IF d.ok THEN Utf8Decode(d.bytes) ELSE DecryptionError,
          genus |-> row.genus, habitat |-> row.habitat,
          conservation_status |-> row.conservation_status ]

ListAllSkipFirst(c, rs) == [i \in 1..(Len(rs) - 1) |-> DisplayRow(c, rs[i + 1])]

ListAllOuterGuard(c, rs) ==
    LET bad == { i \in 1..Len(rs) : ~FernetDecrypt(c, rs[i].species_name).ok }
        n == IF bad = {} THEN Len(rs) ELSE Min(bad) - 1
    IN  [i \in 1..n |-> DisplayRow(c, rs[i])]

ListAll(c, rs) == [i \in 1..Len(rs) |-> DisplayRow(c, rs[i])]

----------------------------------------------------------------------------
(* The state machine *)

Init ==
    /\ pc = "off"
    /\ keyFile = NoFile
    /\ cipher = NoCipher
    /\ tableExists = FALSE
    /\ rows = <<>>
    /\ sqlite_sequence = 0
    /\ tree = <<>>
    /\ msg = MsgNone
    /\ keyLog = <<>>

\* __init__: load_or_generate_key, then sqlite3.connect and create_table.
\* A ValueError from Fernet(key) ends the constructor before the database
\* is opened.
Start ==
    /\ pc \in {"off", "crashed"}
    /\ \E fresh \in KeyIds :
         LET r == LoadOrGenerateKey(keyFile, fresh)
         IN  /\ keyFile' = r.file
             /\ IF r.ok
                THEN /\ pc' = "running"
                     /\ cipher' = r.cipher
                     /\ tableExists' = TRUE
                     /\ keyLog' = IF keyLog = <<>> THEN <<r.cipher>>
                                  ELSE <<keyLog[1], r.cipher>>
                ELSE /\ pc' = "crashed"
                     /\ UNCHANGED <<cipher, tableExists, keyLog>>
    /\ UNCHANGED <<rows, sqlite_sequence, tree, msg>>

\* The user fills the form and presses "Save Record".
SaveRecord ==
    /\ pc = "running"
    /\ \E sp \in SpeciesInputs, g \in FieldInputs, h \in FieldInputs,
          st \in StatusInputs :
         \E o \in {SaveOutcome(cipher, rows, sqlite_sequence, sp, g, h, st)} :
             /\ Len(o.rows) <= MaxRows
             /\ rows' = o.rows
             /\ sqlite_sequence' = o.seq
             /\ msg' = o.msg
    /\ UNCHANGED <<pc, keyFile, cipher, tableExists, tree, keyLog>>

\* The user presses "View Registry".
ViewRegistry ==
    /\ pc = "running"
    /\ tree' = ListAll(cipher, rows)
    /\ UNCHANGED <<pc, keyFile, cipher, tableExists, rows, sqlite_sequence, msg, keyLog>>

\* The window is closed: the process ends, the two files stay.
Quit ==
    /\ pc = "running"
    /\ pc' = "off"
    /\ cipher' = NoCipher
    /\ tree' = <<>>
    /\ msg' = MsgNone
    /\ UNCHANGED <<keyFile, tableExists, rows, sqlite_sequence, keyLog>>

\* Outside the program: key.key is replaced by another key.  The program
\* reads key.key only in its constructor, so a change made while it runs
\* is the same change made right after it ends.
SwapKeyFile ==
    /\ pc # "running"
    /\ \E k \in KeyIds :
         /\ GeneratedKey(k) # keyFile
         /\ keyFile' = GeneratedKey(k)
    /\ keyLog' = <<>>
    /\ UNCHANGED <<pc, cipher, tableExists, rows, sqlite_sequence, tree, msg>>

\* Outside the program: key.key loses its second half.
TruncateKeyFile ==
    /\ pc # "running"
    /\ keyFile # NoFile
    /\ FernetKeyOk(keyFile)
    /\ keyFile' = TruncatedKey(keyFile)
    /\ keyLog' = <<>>
    /\ UNCHANGED <<pc, cipher, tableExists, rows, sqlite_sequence, tree, msg>>

\* Outside the program: key.key is deleted.
DeleteKeyFile ==
    /\ pc # "running"
    /\ keyFile # NoFile
    /\ keyFile' = NoFile
    /\ keyLog' = <<>>
    /\ UNCHANGED <<pc, cipher, tableExists, rows, sqlite_sequence, tree, msg>>

Next ==
    \/ Start
    \/ SaveRecord
    \/ ViewRegistry
    \/ Quit
    \/ SwapKeyFile
    \/ TruncateKeyFile
    \/ DeleteKeyFile

Spec == Init /\ [][Next]_vars

----------------------------------------------------------------------------
(* Helpers of the properties *)

Spaces(n) == [i \in 1..n |-> " "]

\* t is s without its leading and trailing spaces
IsTrimOf(t, s) ==
    /\ \E i \in 0..Len(s), j \in 0..Len(s) : s = Spaces(i) \o t \o Spaces(j)
    /\ t # <<>> => (t[1] # " " /\ t[Len(t)] # " ")

Pieces(s) == { SubSeq(s, i, j) : i \in 1..(Len(s) + 1), j \in 0..Len(s) }

Blank(s) == \A i \in 1..Len(s) : s[i] = " "

Encodable(s) == \A i \in 1..Len(s) : s[i] # Surrogate

WrittenUnder(row, c) == row.species_name.key = c.id

----------------------------------------------------------------------------
(* C1, as stated: for every input with non-empty species name, genus and   *)
(* habitat and one of the six statuses, a save followed by a listing under *)
(* the same key returns one more record, and its species name is exactly   *)
(* the text that was entered.                                              *)
C1_RoundTripExact ==
    pc = "running" =>
      \A sp \in SpeciesInputs, g \in FieldInputs, h \in FieldInputs,
         st \in StatusInputs :
        (sp # <<>> /\ g # <<>> /\ h # <<>> /\ st \in ConservationStatuses
            /\ Encodable(sp)) =>
          \A o \in {SaveOutcome(cipher, rows, sqlite_sequence, sp, g, h, st)} :
          \A l \in {ListAll(cipher, o.rows)} :
              /\ Len(l) = Len(rows) + 1
              /\ l[Len(l)].species = sp

(* C1, amended: for every input whose species name, genus and habitat are  *)
(* not blank and whose status is one of the six, a save followed by a      *)
(* listing under the same key returns one more record, and its species     *)
(* name is the entered text without its leading and trailing whitespace.   *)
C1_RoundTripTrimmed ==
    pc = "running" =>
      \A sp \in SpeciesInputs, g \in FieldInputs, h \in FieldInputs,
         st \in StatusInputs :
        (~Blank(sp) /\ ~Blank(g) /\ ~Blank(h) /\ st \in ConservationStatuses
            /\ Encodable(sp)) =>
          \A o \in {SaveOutcome(cipher, rows, sqlite_sequence, sp, g, h, st)} :
          \A l \in {ListAll(cipher, o.rows)} :
              /\ o.msg = MsgSuccess
              /\ Len(l) = Len(rows) + 1
              /\ \A t \in Pieces(sp) : IsTrimOf(t, sp) => l[Len(l)].species = t

\* A padded name was saved and the registry listed afterwards.
C1_Witness ==
    /\ pc = "running"
    /\ msg = MsgSuccess
    /\ rows # <<>>
    /\ Len(tree) = Len(rows)
    /\ WrittenUnder(rows[Len(rows)], cipher)
    /\ tree[Len(tree)].species = <<"a", " ", "b">>

(* C2: a save with an empty species name, genus, habitat or status is      *)
(* rejected with the validation message and leaves the rows and the        *)
(* identifier counter as they were.                                        *)
C2_EmptyFieldRejected ==
    pc = "running" =>
      \A sp \in SpeciesInputs, g \in FieldInputs, h \in FieldInputs,
         st \in StatusInputs :
        (sp = <<>> \/ g = <<>> \/ h = <<>> \/ st = "") =>
          \A o \in {SaveOutcome(cipher, rows, sqlite_sequence, sp, g, h, st)} :
              /\ o.rows = rows
              /\ o.seq = sqlite_sequence
              /\ o.msg = MsgRequired

\* A save was rejected while rows were stored.
C2_Witness ==
    /\ pc = "running"
    /\ msg = MsgRequired
    /\ Len(rows) = 1

(* C3: no two stored rows share an identifier, and every row's identifier  *)
(* is greater than the identifier of every row stored before it.           *)
C3_IdsStrictlyIncreasing ==
    /\ \A i \in 1..Len(rows), j \in 1..Len(rows) :
         i < j => rows[i].id < rows[j].id
    /\ \A i \in 1..Len(rows) : rows[i].id >= 1 /\ rows[i].id <= sqlite_sequence

\* Two inserts have succeeded.
C3_Witness ==
    /\ Len(rows) >= 2
    /\ rows[1].id < rows[2].id

(* C4: a listing made under a key other than the one a row was written     *)
(* under shows "Decryption Error" as that row's species name and the row's *)
(* identifier, genus, habitat and status as stored.                        *)
C4_SwappedKeySentinel ==
    [][ ViewRegistry =>
          /\ Len(tree') = Len(rows)
          /\ \A i \in 1..Len(rows) :
               ~WrittenUnder(rows[i], cipher) =>
                 tree'[i] = [ id |-> rows[i].id, species |-> DecryptionError,
                              genus |-> rows[i].genus, habitat |-> rows[i].habitat,
                              conservation_status |-> rows[i].conservation_status ]
      ]_vars

\* A row written under another key has been listed.
C4_Witness ==
    /\ pc = "running"
    /\ tree # <<>>
    /\ ~WrittenUnder(rows[1], cipher)
    /\ tree[1].species = DecryptionError
    /\ tree[1].genus = <<"g">>
    /\ tree[1].id = 1

(* C5: two calls of load_or_generate_key in a row, with key.key untouched  *)
(* in between, return the same key, and a call that finds key.key leaves   *)
(* its content as it was.                                                  *)
C5_SameKeyTwice ==
    [][ /\ Len(keyLog') = 2 => keyLog'[2] = keyLog'[1]
        /\ (Start /\ keyFile # NoFile) => keyFile' = keyFile
      ]_vars

\* The key was generated by one launch and loaded by the next.
C5_Witness ==
    /\ pc = "running"
    /\ Len(keyLog) = 2
    /\ cipher = keyLog[1]
    /\ keyFile = cipher

(* C6: a listing returns every stored row exactly once, in storage order,  *)
(* ascending by identifier.                                                *)
C6_ListsEveryRowInOrder ==
    [][ ViewRegistry =>
          /\ Len(tree') = Len(rows)
          /\ \A i \in 1..Len(rows) :
               /\ tree'[i].id = rows[i].id
               /\ tree'[i].genus = rows[i].genus
               /\ tree'[i].habitat = rows[i].habitat
               /\ tree'[i].conservation_status = rows[i].conservation_status
          /\ \A i \in 1..Len(tree'), j \in 1..Len(tree') :
               i < j => tree'[i].id < tree'[j].id
      ]_vars

\* Two rows have been listed.
C6_Witness ==
    /\ pc = "running"
    /\ Len(rows) = 2
    /\ Len(tree) = 2
    /\ tree[1].id = 1
    /\ tree[2].id = 2

(* C7: in a listing of a store that mixes rows written under the current   *)
(* key with rows written under another, every row appears, the rows of the *)
(* other key show "Decryption Error" and the rows of the current key show  *)
(* their plaintext species name.                                           *)
C7_PerRowIsolation ==
    [][ ViewRegistry =>
          /\ Len(tree') = Len(rows)
          /\ \A i \in 1..Len(rows) :
               tree'[i].species =
                 IF WrittenUnder(rows[i], cipher)
                 THEN Utf8Decode(rows[i].species_name.data)
                 ELSE DecryptionError
      ]_vars

\* An undecryptable row was listed ahead of a row of the current key.
C7_Witness ==
    /\ pc = "running"
    /\ Len(rows) = 2
    /\ Len(tree) = 2
    /\ ~WrittenUnder(rows[1], cipher)
    /\ WrittenUnder(rows[2], cipher)
    /\ tree[1].species = DecryptionError
    /\ tree[2].species = <<"a">>

(* C8, as stated: a launch that finds key.key takes its bytes as the key   *)
(* whatever they are, and starts.                                          *)
C8_AnyKeyFileAccepted ==
    [][ (Start /\ keyFile # NoFile) =>
          /\ pc' = "running"
          /\ cipher' = keyFile
      ]_vars

(* C8, amended: a launch that finds key.key never rewrites it; it starts   *)
(* with the file's bytes as the key when they are a whole Fernet key, and  *)
(* fails, leaving the stored rows alone, when they are not.                *)
C8_KeyFileCheckedByFernet ==
    [][ (Start /\ keyFile # NoFile) =>
          /\ keyFile' = keyFile
          /\ rows' = rows
          /\ IF keyFile.whole
             THEN pc' = "running" /\ cipher' = keyFile
             ELSE pc' = "crashed" /\ cipher' = cipher
      ]_vars

\* A launch has failed on a truncated key file.
C8_Witness ==
    /\ pc = "crashed"
    /\ keyFile # NoFile
    /\ ~keyFile.whole
    /\ rows # <<>>

(* C9: every step keeps every stored row, in place and unchanged.          *)
C9_AppendOnly ==
    [][ /\ Len(rows') >= Len(rows)
        /\ \A i \in 1..Len(rows) : rows'[i] = rows[i]
      ]_vars

\* Two rows are stored, a listing and a rejected save have followed.
C9_Witness ==
    /\ Len(rows) = 2
    /\ tree # <<>>
    /\ msg = MsgRequired

(* C10: a save whose species name cannot be encrypted reports the failure  *)
(* and leaves the rows and the identifier counter as they were.            *)
C10_EncryptionFailureAborts ==
    pc = "running" =>
      \A sp \in SpeciesInputs, g \in FieldInputs, h \in FieldInputs,
         st \in StatusInputs :
        (~Encodable(sp) /\ ~Blank(g) /\ ~Blank(h) /\ st # "") =>
          \A o \in {SaveOutcome(cipher, rows, sqlite_sequence, sp, g, h, st)} :
              /\ o.rows = rows
              /\ o.seq = sqlite_sequence
              /\ o.msg = MsgEncryptFailed

\* An encryption failure was reported while a row was stored.
C10_Witness ==
    /\ pc = "running"
    /\ msg = MsgEncryptFailed
    /\ Len(rows) = 1

====
